---------------------------- MODULE Spec2Model ----------------------------
(***************************************************************************)
(* Model of voxblox's CameraModel and Plane                                *)
(* (voxblox/src/utils/camera_model.cc).                                    *)
(*                                                                         *)
(* Numbers.  The code computes in double precision; the model computes in  *)
(* exact fixed-point arithmetic.  A coordinate is an integer number of     *)
(* steps, Res steps to one length unit.  A field of view enters the code   *)
(* only through tan(fov / 2); the model passes that tangent, as an integer *)
(* number of 1/Res, in place of the angle.  A unit vector n/|n| is kept as *)
(* the primitive integer vector of its direction (which is unique per      *)
(* direction, as the unit vector is), and a plane distance d/|n| as the    *)
(* integer d; the common positive factor 1/|n| cancels in every comparison *)
(* the code makes.  Rounding error of the doubles is not modelled.         *)
(***************************************************************************)
EXTENDS Integers, Sequences, FiniteSets, TLC

\* ------------------------------------------------------------------ bounds
\* Res = 2 * Sub steps make one length unit (so half a unit is Sub steps).
Sub == 1
Res == 2 * Sub
\* Near depths range over 1 .. MaxNear length units.
MaxNear == 2
\* Query points have coordinates in -GridMax .. GridMax steps.
GridMax == 3

\* ------------------------------------------------------- vectors, Point
Abs(a) == IF a < 0 THEN -a ELSE a

RECURSIVE Gcd(_, _)
Gcd(a, b) == IF b = 0 THEN a ELSE Gcd(b, a % b)

Point(x, y, z) == <<x, y, z>>

Minus(p, q) == <<p[1] - q[1], p[2] - q[2], p[3] - q[3]>>

Plus(p, q) == <<p[1] + q[1], p[2] + q[2], p[3] + q[3]>>

Dot(p, q) == p[1] * q[1] + p[2] * q[2] + p[3] * q[3]

Cross(a, b) == <<a[2] * b[3] - a[3] * b[2],
                 a[3] * b[1] - a[1] * b[3],
                 a[1] * b[2] - a[2] * b[1]>>

\* The value of a vector whose components are all NaN (0/0).
NaNVec == <<>>

\* v / |v|: the direction of v as its primitive integer vector; the zero
\* vector has no direction: dividing it by its zero norm gives NaNs.
Normalized(v) ==
    LET g == Gcd(Gcd(Abs(v[1]), Abs(v[2])), Abs(v[3]))
    IN  IF g = 0 THEN NaNVec ELSE <<v[1] \div g, v[2] \div g, v[3] \div g>>

\* ------------------------------------------------------- Transformation
\* A rigid transformation: rotation matrix R (three rows) and translation t.
Row(R, p) == <<Dot(R[1], p), Dot(R[2], p), Dot(R[3], p)>>

Col(R, j) == <<R[1][j], R[2][j], R[3][j]>>

Transpose(R) == <<Col(R, 1), Col(R, 2), Col(R, 3)>>

MatMul(A, B) == <<Row(Transpose(B), A[1]), Row(Transpose(B), A[2]),
                  Row(Transpose(B), A[3])>>

\* T * p
Apply(T, p) == Plus(Row(T.R, p), T.t)

\* A * B
Compose(A, B) == [R |-> MatMul(A.R, B.R), t |-> Plus(Row(A.R, B.t), A.t)]

\* T.inverse()
Inverse(T) == [R |-> Transpose(T.R),
               t |-> Minus(<<0, 0, 0>>, Row(Transpose(T.R), T.t))]

IdentityR == <<<<1, 0, 0>>, <<0, 1, 0>>, <<0, 0, 1>>>>
RotZ90 == <<<<0, -1, 0>>, <<1, 0, 0>>, <<0, 0, 1>>>>
RotY90 == <<<<0, 0, 1>>, <<0, 1, 0>>, <<-1, 0, 0>>>>

IdentityT == [R |-> IdentityR, t |-> <<0, 0, 0>>]

\* ---------------------------------------------------------------- Plane
\* Plane::setFromPoints
setFromPoints(p1, p2, p3) ==
    LET p1p2 == Minus(p2, p1)
        p1p3 == Minus(p3, p1)
        cross == Cross(p1p2, p1p3)
        normal == Normalized(cross)
    IN  [normal |-> normal,
         \* the dot product with a NaN normal is NaN: 0 stands for it, and
         \* isPointInside never reads it
         distance |-> IF normal = NaNVec THEN 0 ELSE Dot(normal, p1)]

\* Plane::isPointInside; a comparison with a NaN is false.
isPointInside(plane, point) ==
    IF plane.normal = NaNVec
    THEN FALSE
    ELSE Dot(point, plane.normal) >= plane.distance

\* A default-constructed Plane, as bounding_planes_.resize(6) makes six of;
\* each is overwritten before it can be read.
DefaultPlane == [normal |-> <<1, 0, 0>>, distance |-> 0]

\* ---------------------------------------------------------- CameraModel
VARIABLES
    initialized,            \* initialized_
    untransformed_corners,  \* untransformed_corners_
    T_C_B,                  \* T_C_B_
    T_G_C,                  \* T_G_C_
    bounding_planes,        \* bounding_planes_
    aabb_min,               \* aabb_min_
    aabb_max,               \* aabb_max_
    check_failed,           \* a CHECK_EQ failed: the process has aborted
    \* history variables
    cfg,        \* the arguments of the last setIntrinsics call, or NoCfg
    posed_cfg,  \* cfg as it was at the last pose setter call, or NoCfg
    stale,      \* setIntrinsics was called since the last pose setter call
    replaced,   \* the last call was setCameraPose, with the pose unchanged,
                \* after a reconfiguration: the configuration before it
    last        \* the last call: its name and argument

vars == <<initialized, untransformed_corners, T_C_B, T_G_C, bounding_planes,
          aabb_min, aabb_max, check_failed, cfg, posed_cfg, stale, replaced,
          last>>

\* The object as a record of its members.
Model == [initialized |-> initialized,
          untransformed_corners |-> untransformed_corners,
          T_C_B |-> T_C_B, T_G_C |-> T_G_C,
          bounding_planes |-> bounding_planes,
          aabb_min |-> aabb_min, aabb_max |-> aabb_max,
          check_failed |-> check_failed]

\* The members take the values of record m.
Becomes(m) ==
    /\ initialized' = m.initialized
    /\ untransformed_corners' = m.untransformed_corners
    /\ T_C_B' = m.T_C_B
    /\ T_G_C' = m.T_G_C
    /\ bounding_planes' = m.bounding_planes
    /\ aabb_min' = m.aabb_min
    /\ aabb_max' = m.aabb_max
    /\ check_failed' = m.check_failed

\* std::numeric_limits<double>::max(); lowest() is its negation.
DoubleMax == 1000000

Min(a, b) == IF a < b THEN a ELSE b

Max(a, b) == IF a > b THEN a ELSE b

\* AabbMinLoop reading the first axis whatever i is.
RECURSIVE AabbMinLoopFirstAxis(_, _, _, _)
AabbMinLoopFirstAxis(tc, i, j, acc) ==
    IF j > Len(tc) THEN acc
    ELSE AabbMinLoopFirstAxis(tc, i, j + 1, Min(acc, tc[j][1]))

\* AabbMaxLoop stopping after the four near corners.
RECURSIVE AabbMaxLoopNearOnly(_, _, _, _)
AabbMaxLoopNearOnly(tc, i, j, acc) ==
    IF j > 4 THEN acc
    ELSE AabbMaxLoopNearOnly(tc, i, j + 1, Max(acc, tc[j][i]))

\* The loop over j of the AABB computation, for axis i, from corner j on.
RECURSIVE AabbMinLoop(_, _, _, _)
AabbMinLoop(tc, i, j, acc) ==
    IF j > Len(tc) THEN acc ELSE AabbMinLoop(tc, i, j + 1, Min(acc, tc[j][i]))

RECURSIVE AabbMaxLoop(_, _, _, _)
AabbMaxLoop(tc, i, j, acc) ==
    IF j > Len(tc) THEN acc ELSE AabbMaxLoop(tc, i, j + 1, Max(acc, tc[j][i]))

\* SixPlanes with the far plane wound the other way round.
SixPlanesFarFlipped(planes, tc) ==
    [planes EXCEPT
        ![1] = setFromPoints(tc[1], tc[3], tc[2]),
        ![2] = setFromPoints(tc[5], tc[7], tc[6]),
        ![3] = setFromPoints(tc[4], tc[7], tc[3]),
        ![4] = setFromPoints(tc[1], tc[6], tc[5]),
        ![5] = setFromPoints(tc[4], tc[5], tc[8]),
        ![6] = setFromPoints(tc[3], tc[7], tc[6])]

\* The six planes from the transformed corners (0-based c[k] is tc[k + 1]).
SixPlanes(planes, tc) ==
    [planes EXCEPT
        ![1] = setFromPoints(tc[1], tc[3], tc[2]),   \* near
        ![2] = setFromPoints(tc[5], tc[6], tc[7]),   \* far
        ![3] = setFromPoints(tc[4], tc[7], tc[3]),   \* left
        ![4] = setFromPoints(tc[1], tc[6], tc[5]),   \* right
        ![5] = setFromPoints(tc[4], tc[5], tc[8]),   \* top
        ![6] = setFromPoints(tc[3], tc[7], tc[6])]   \* bottom

\* The loop that transforms all the points, from corner i on.
RECURSIVE TransformLoop(_, _, _)
TransformLoop(T, corners, i) ==
    IF i > Len(corners) THEN <<>>
    ELSE <<Apply(T, corners[i])>> \o TransformLoop(T, corners, i + 1)

\* CameraModel::calculateBoundingPlanes on the object m, past its guard:
\* the CHECK_EQ, then the planes and the AABB.
Recalculate(m) ==
    IF Len(m.untransformed_corners) # 8
    THEN [m EXCEPT !.check_failed = TRUE]
    ELSE
      LET resized == IF m.bounding_planes = <<>>
                     THEN [i \in 1..6 |-> DefaultPlane]
                     ELSE m.bounding_planes
          transformed_corners ==
              TransformLoop(m.T_G_C, m.untransformed_corners, 1)
      IN  [m EXCEPT
             !.bounding_planes = SixPlanes(resized, transformed_corners),
             !.aabb_min = <<AabbMinLoop(transformed_corners, 1, 1, DoubleMax),
                            AabbMinLoop(transformed_corners, 2, 1, DoubleMax),
                            AabbMinLoop(transformed_corners, 3, 1, DoubleMax)>>,
             !.aabb_max = <<AabbMaxLoop(transformed_corners, 1, 1, -DoubleMax),
                            AabbMaxLoop(transformed_corners, 2, 1, -DoubleMax),
                            AabbMaxLoop(transformed_corners, 3, 1, -DoubleMax)>>]

\* calculateBoundingPlanes without its guard.
calculateBoundingPlanesUnguarded(m) == Recalculate(m)

\* CameraModel::calculateBoundingPlanes on the object m.
calculateBoundingPlanes(m) == IF ~m.initialized THEN m ELSE Recalculate(m)

\* The eight corners pushed by setIntrinsicsFromFoV; tan_h and tan_v are
\* tan(fov / 2) in 1/Res, the depths are in length units, the corners in steps.
Corners(tan_h, tan_v, min_distance, max_distance) ==
    <<Point(min_distance * Res, min_distance * tan_h, min_distance * tan_v),
      Point(min_distance * Res, min_distance * tan_h, -min_distance * tan_v),
      Point(min_distance * Res, -min_distance * tan_h, -min_distance * tan_v),
      Point(min_distance * Res, -min_distance * tan_h, min_distance * tan_v),
      Point(max_distance * Res, max_distance * tan_h, max_distance * tan_v),
      Point(max_distance * Res, max_distance * tan_h, -max_distance * tan_v),
      Point(max_distance * Res, -max_distance * tan_h, -max_distance * tan_v),
      Point(max_distance * Res, -max_distance * tan_h, max_distance * tan_v)>>

\* setIntrinsicsFromFoV that configures once only.
SetIntrinsicsOnce(m, tan_h, tan_v, min_distance, max_distance) ==
    IF m.initialized THEN m
    ELSE [m EXCEPT
            !.untransformed_corners =
                Corners(tan_h, tan_v, min_distance, max_distance),
            !.initialized = TRUE]

\* setIntrinsicsFromFoV without the clear: the 8 pushes append.
SetIntrinsicsAppending(m, tan_h, tan_v, min_distance, max_distance) ==
    [m EXCEPT
       !.untransformed_corners =
           @ \o Corners(tan_h, tan_v, min_distance, max_distance),
       !.initialized = TRUE]

\* setIntrinsicsFromFoV that goes on to compute the planes.
SetIntrinsicsRecalculating(m, tan_h, tan_v, min_distance, max_distance) ==
    calculateBoundingPlanes(
        [m EXCEPT
           !.untransformed_corners =
               Corners(tan_h, tan_v, min_distance, max_distance),
           !.initialized = TRUE])

\* setIntrinsicsFromFoV that also drops the planes.
SetIntrinsicsDroppingPlanes(m, tan_h, tan_v, min_distance, max_distance) ==
    [m EXCEPT
       !.untransformed_corners =
           Corners(tan_h, tan_v, min_distance, max_distance),
       !.bounding_planes = <<>>,
       !.initialized = TRUE]

\* CameraModel::setIntrinsicsFromFoV on the object m: clear, then 8 pushes.
SetIntrinsicsFromFoV(m, tan_h, tan_v, min_distance, max_distance) ==
    [m EXCEPT
       !.untransformed_corners =
           <<>> \o Corners(tan_h, tan_v, min_distance, max_distance),
       !.initialized = TRUE]

\* tan(atan(resolution / (2 * focal_length))), in 1/Res.
TanOfFocal(resolution_axis, focal_length) ==
    (Res * resolution_axis) \div (2 * focal_length)

\* CameraModel::setIntrinsicsFromFocalLength on the object m.
SetIntrinsicsFromFocalLength(m, resolution, focal_length, min_d, max_d) ==
    SetIntrinsicsFromFoV(m, TanOfFocal(resolution[1], focal_length),
                         TanOfFocal(resolution[2], focal_length),
                         min_d, max_d)

\* setExtrinsics that recomputes the planes.
SetExtrinsicsRecalculating(m, T) ==
    calculateBoundingPlanes([m EXCEPT !.T_C_B = T])

\* CameraModel::setExtrinsics on the object m.
SetExtrinsics(m, T) == [m EXCEPT !.T_C_B = T]

\* CameraModel::setCameraPose on the object m.
SetCameraPose(m, cam_pose) ==
    calculateBoundingPlanes([m EXCEPT !.T_G_C = cam_pose])

\* setBodyPose composing with the offset instead of its inverse.
SetBodyPoseNoInverse(m, body_pose) ==
    calculateBoundingPlanes(
        [m EXCEPT !.T_G_C = Compose(body_pose, m.T_C_B)])

\* CameraModel::setBodyPose on the object m.
SetBodyPose(m, body_pose) ==
    SetCameraPose(m, Compose(body_pose, Inverse(m.T_C_B)))

\* CameraModel::getCameraPose
GetCameraPose(m) == m.T_G_C

\* CameraModel::getBodyPose
GetBodyPose(m) == Compose(m.T_G_C, m.T_C_B)

\* CameraModel::getAabb
GetAabb(m) == <<m.aabb_min, m.aabb_max>>

\* ------------------------------------------------------------ the inputs
Config(tan_h, tan_v, min_distance, max_distance) ==
    [tan_h |-> tan_h, tan_v |-> tan_v,
     min_distance |-> min_distance, max_distance |-> max_distance]

\* No configuration: no setIntrinsics call was made.
NoCfg == Config(0, 0, 0, 0)

\* 90 degrees by 90 degrees, from 1 to 10 length units.
ExampleConfig == Config(Res, Res, 1, 10)

\* Tangents of the half fields of view (horizontal, vertical): 1/2 and 1,
\* in 1/Res.
TangentPairs == {<<Sub, Res>>, <<Res, Sub>>}

\* Valid configurations: tangents > 0 and 0 < min_distance < max_distance.
Configs ==
    {Config(t[1], t[2], n, n + 1) : t \in TangentPairs, n \in 1..MaxNear}
        \cup {ExampleConfig}

\* Image sizes (in pixels) and focal lengths of setIntrinsicsFromFocalLength:
\* tangents of 1/2 and 1.
Resolutions == {<<1, 2>>, <<2, 1>>}

FocalLengths == {1}

Rotations == {IdentityR, RotZ90, RotY90}

Shifts == {<<0, 0, 0>>, <<-1, -2, 1>>}

\* The poses given to setCameraPose and setBodyPose.
Poses == {[R |-> r, t |-> s] : r \in Rotations, s \in Shifts}

\* The offsets given to setExtrinsics.
Extrinsics == {IdentityT, [R |-> RotZ90, t |-> <<1, 0, -1>>]}

\* What the two AABB members may hold before they are first assigned.
Uninitialized == {<<<<0, 0, 0>>, <<0, 0, 0>>>>, <<<<7, -7, 7>>, <<-3, 5, 0>>>>}

\* The query points.
Grid == {<<x, y, z>> : x \in -GridMax..GridMax, y \in -GridMax..GridMax,
                       z \in -GridMax..GridMax}

\* ------------------------------------------------------------ the actions
\* The object after construction: not initialized, no corners, no planes,
\* identity transformations; the AABB members hold what u gives.
Constructed(u) ==
    [initialized |-> FALSE,
     untransformed_corners |-> <<>>,
     T_C_B |-> IdentityT, T_G_C |-> IdentityT,
     bounding_planes |-> <<>>,
     aabb_min |-> u[1], aabb_max |-> u[2],
     check_failed |-> FALSE]

NoCall == [op |-> "none", arg |-> NoCfg]

Init ==
    /\ \E u \in Uninitialized :
          /\ initialized = Constructed(u).initialized
          /\ untransformed_corners = Constructed(u).untransformed_corners
          /\ T_C_B = Constructed(u).T_C_B
          /\ T_G_C = Constructed(u).T_G_C
          /\ bounding_planes = Constructed(u).bounding_planes
          /\ aabb_min = Constructed(u).aabb_min
          /\ aabb_max = Constructed(u).aabb_max
          /\ check_failed = Constructed(u).check_failed
    /\ cfg = NoCfg
    /\ posed_cfg = NoCfg
    /\ stale = FALSE
    /\ replaced = NoCfg
    /\ last = NoCall

setIntrinsicsFromFoV(c) ==
    /\ ~check_failed
    /\ \E m \in {SetIntrinsicsFromFoV(Model, c.tan_h, c.tan_v,
                                        c.min_distance, c.max_distance)} :
          Becomes(m)
    /\ cfg' = c
    /\ stale' = TRUE
    /\ replaced' = NoCfg
    /\ last' = [op |-> "setIntrinsicsFromFoV", arg |-> c]
    /\ UNCHANGED posed_cfg

setIntrinsicsFromFocalLength(resolution, focal_length, min_d, max_d) ==
    LET c == Config(TanOfFocal(resolution[1], focal_length),
                    TanOfFocal(resolution[2], focal_length), min_d, max_d)
    IN  /\ ~check_failed
        /\ \E m \in {SetIntrinsicsFromFocalLength(Model, resolution,
                          focal_length, min_d, max_d)} :
              Becomes(m)
        /\ cfg' = c
        /\ stale' = TRUE
        /\ replaced' = NoCfg
        /\ last' = [op |-> "setIntrinsicsFromFocalLength", arg |-> c]
        /\ UNCHANGED posed_cfg

setExtrinsics(T) ==
    /\ ~check_failed
    /\ \E m \in {SetExtrinsics(Model, T)} : Becomes(m)
    /\ replaced' = NoCfg
    /\ last' = [op |-> "setExtrinsics", arg |-> T]
    /\ UNCHANGED <<cfg, posed_cfg, stale>>

setCameraPose(cam_pose) ==
    /\ ~check_failed
    /\ \E m \in {SetCameraPose(Model, cam_pose)} : Becomes(m)
    /\ posed_cfg' = cfg
    /\ stale' = FALSE
    /\ replaced' = IF stale /\ posed_cfg # NoCfg /\ cam_pose = T_G_C
                   THEN posed_cfg ELSE NoCfg
    /\ last' = [op |-> "setCameraPose", arg |-> cam_pose]
    /\ UNCHANGED cfg

setBodyPose(body_pose) ==
    /\ ~check_failed
    /\ \E m \in {SetBodyPose(Model, body_pose)} : Becomes(m)
    /\ posed_cfg' = cfg
    /\ stale' = FALSE
    /\ replaced' = NoCfg
    /\ last' = [op |-> "setBodyPose", arg |-> body_pose]
    /\ UNCHANGED cfg

Next ==
    \/ \E c \in Configs : setIntrinsicsFromFoV(c)
    \/ \E r \in Resolutions, f \in FocalLengths, n \in 1..MaxNear :
          setIntrinsicsFromFocalLength(r, f, n, n + 1)
    \/ \E T \in Extrinsics : setExtrinsics(T)
    \/ \E T \in Poses : setCameraPose(T)
    \/ \E T \in Poses : setBodyPose(T)

Spec == Init /\ [][Next]_vars

\* The queries on the current object.
\* CameraModel::isPointInView
isPointInView(point) ==
    \A i \in 1..Len(bounding_planes) :
        isPointInside(bounding_planes[i], point)

getAabb == GetAabb(Model)

getBodyPose == GetBodyPose(Model)

getCameraPose == GetCameraPose(Model)

\* ------------------------------------------------------------- the claims
PoseSetters == {"setCameraPose", "setBodyPose"}

IntrinsicsSetters == {"setIntrinsicsFromFoV", "setIntrinsicsFromFocalLength"}

\* The last pose setter call was made after the last setIntrinsics call.
Posed == cfg # NoCfg /\ ~stale

\* Point p, seen from a sensor at pose T, lies in the frustum of
\* configuration c: between the depths and within both fields of view,
\* the boundaries included.
InFrustum(c, T, p) ==
    LET q == Apply(Inverse(T), p)
    IN  /\ c.min_distance * Res <= q[1]
        /\ q[1] <= c.max_distance * Res
        /\ Abs(q[2]) * Res <= q[1] * c.tan_h
        /\ Abs(q[3]) * Res <= q[1] * c.tan_v

InBox(p, box) == \A i \in 1..3 : box[1][i] <= p[i] /\ p[i] <= box[2][i]

\* A fresh object configured with c only and then posed at T.
FreshModel(c, T) ==
    SetCameraPose(
        SetIntrinsicsFromFoV(Constructed(CHOOSE u \in Uninitialized : TRUE),
                             c.tan_h, c.tan_v, c.min_distance, c.max_distance),
        T)

\* The corners of the frustum in the world frame, at the current pose.
WorldCorner(j) == Apply(getCameraPose, untransformed_corners[j])

\* C1: once a pose was set after the last setIntrinsics call, isPointInView(p)
\* is true exactly when inverse(T) * p lies between the two depths and within
\* both fields of view, boundaries included, T being the camera pose; and for
\* 90 by 90 degrees, depths 1 to 10 and the identity pose, (5, 0, 0) is in
\* view and (1/2, 0, 0) and (5, 100, 0) are not.
Thm_C1_InViewIffInFrustum ==
    (initialized /\ Posed) =>
        /\ \A p \in Grid : isPointInView(p) <=> InFrustum(cfg, T_G_C, p)
        /\ (cfg = ExampleConfig /\ T_G_C = IdentityT) =>
              /\ isPointInView(<<5 * Res, 0, 0>>)
              /\ ~isPointInView(<<Sub, 0, 0>>)
              /\ ~isPointInView(<<5 * Res, 100 * Res, 0>>)

Wit_C1_RotatedCameraPose ==
    /\ initialized /\ Posed
    /\ last.op = "setCameraPose"
    /\ T_G_C.R = RotY90 /\ T_G_C.t # <<0, 0, 0>>
    /\ \E p \in Grid : isPointInView(p)
    /\ \E p \in Grid : ~isPointInView(p)

\* C2: right after a pose setter call on an initialized object, on each axis
\* the AABB bounds all 8 corners transformed by the camera pose, each bound
\* is the coordinate of one of them, and getAabb returns that pair.
Thm_C2_AabbBoundsCorners ==
    (initialized /\ last.op \in PoseSetters) =>
        /\ Len(untransformed_corners) = 8
        /\ getAabb = <<aabb_min, aabb_max>>
        /\ \A i \in 1..3 :
              /\ \A j \in 1..8 : /\ getAabb[1][i] <= WorldCorner(j)[i]
                                  /\ WorldCorner(j)[i] <= getAabb[2][i]
              /\ \E j \in 1..8 : WorldCorner(j)[i] = getAabb[1][i]
              /\ \E j \in 1..8 : WorldCorner(j)[i] = getAabb[2][i]

Wit_C2_BodyPoseAabb ==
    /\ initialized
    /\ last.op = "setBodyPose"
    /\ T_C_B # IdentityT
    /\ T_G_C.R # IdentityR
    /\ \E i \in 1..3 : aabb_max[i] < 0

\* C3: once intrinsics and then a pose were set, every point in view lies
\* in the box that getAabb returns.
Thm_C3_AabbContainsView ==
    (posed_cfg # NoCfg) =>
        \A p \in Grid : isPointInView(p) => InBox(p, getAabb)

Wit_C3_BoxLargerThanView ==
    /\ posed_cfg # NoCfg
    /\ \E p \in Grid : isPointInView(p)
    /\ \E p \in Grid : ~isPointInView(p) /\ InBox(p, getAabb)
    /\ \E p \in Grid : ~InBox(p, getAabb)

\* C4: a pose setter call made before any setIntrinsics call leaves the
\* planes empty and the AABB as it was, and fails no check.
Thm_C4_PoseBeforeIntrinsics ==
    [][(cfg = NoCfg /\ last'.op \in PoseSetters) =>
          /\ bounding_planes = <<>> /\ bounding_planes' = <<>>
          /\ aabb_min' = aabb_min /\ aabb_max' = aabb_max
          /\ ~initialized' /\ ~check_failed']_vars

Wit_C4_PosedUninitialized ==
    /\ cfg = NoCfg
    /\ last.op = "setBodyPose"
    /\ T_C_B # IdentityT
    /\ T_G_C # IdentityT

\* C5: after setIntrinsics(old), setCameraPose(T), setIntrinsics(new),
\* setCameraPose(T), the planes and the AABB are those of a fresh object
\* configured with new and posed at T, and no point of the old frustum that
\* is outside the new one is in view.
Thm_C5_Reconfigured ==
    (replaced # NoCfg) =>
        /\ bounding_planes = FreshModel(cfg, T_G_C).bounding_planes
        /\ getAabb = GetAabb(FreshModel(cfg, T_G_C))
        /\ Len(untransformed_corners) = 8
        /\ \A p \in Grid :
              (InFrustum(replaced, T_G_C, p) /\ ~InFrustum(cfg, T_G_C, p))
                  => ~isPointInView(p)

Wit_C5_PointLeftTheView ==
    /\ replaced # NoCfg
    /\ replaced # cfg
    /\ \E p \in Grid : /\ InFrustum(replaced, T_G_C, p)
                        /\ ~InFrustum(cfg, T_G_C, p)
                        /\ ~isPointInView(p)

\* C6: right after setBodyPose(B), getBodyPose returns B and getCameraPose
\* returns B * inverse(T_C_B), with or without intrinsics.
Thm_C6_BodyPoseRoundTrip ==
    (last.op = "setBodyPose") =>
        /\ getBodyPose = last.arg
        /\ getCameraPose = Compose(last.arg, Inverse(T_C_B))

Wit_C6_BodyPoseWithOffset ==
    /\ last.op = "setBodyPose"
    /\ T_C_B # IdentityT
    /\ last.arg.R # IdentityR /\ last.arg.t # <<0, 0, 0>>
    /\ getCameraPose # last.arg
    /\ ~initialized

\* C7, as stated: once intrinsics are set there are exactly 8 corners and
\* exactly 6 planes.
Orig_C7_EightCornersSixPlanes ==
    initialized => (Len(untransformed_corners) = 8 /\ Len(bounding_planes) = 6)

\* C7, amended: once intrinsics are set there are exactly 8 corners, and
\* exactly 6 planes once a pose setter was called after the first
\* setIntrinsics call, and no plane before that.
Thm_C7_EightCornersNoneOrSixPlanes ==
    /\ initialized <=> cfg # NoCfg
    /\ initialized =>
          /\ Len(untransformed_corners) = 8
          /\ Len(bounding_planes) = IF posed_cfg # NoCfg THEN 6 ELSE 0

Wit_C7_ReconfiguredWithPlanes ==
    /\ initialized
    /\ stale
    /\ posed_cfg # NoCfg /\ posed_cfg # cfg
    /\ Len(bounding_planes) = 6

\* C8: setExtrinsics leaves the camera pose, the corners, the planes, the
\* AABB and initialized as they were, hence also every answer of
\* isPointInView and getAabb; getBodyPose becomes T_G_C * T_C_B.
Thm_C8_ExtrinsicsFrame ==
    [][(last'.op = "setExtrinsics") =>
          /\ UNCHANGED <<T_G_C, untransformed_corners, bounding_planes,
                         aabb_min, aabb_max, initialized>>
          /\ \A p \in Grid : isPointInView(p)' = isPointInView(p)
          /\ getAabb' = getAabb
          /\ T_C_B' = last'.arg
          /\ getBodyPose' = Compose(T_G_C, last'.arg)]_vars

Wit_C8_ExtrinsicsAfterPlanes ==
    /\ last.op = "setExtrinsics"
    /\ T_C_B # IdentityT
    /\ stale /\ Len(bounding_planes) = 6
    /\ \E p \in Grid : isPointInView(p)

\* C9: while no pose setter was called after the first setIntrinsics call
\* there are no planes, and without planes every point is in view.
Thm_C9_NoPlanesAllInView ==
    /\ (posed_cfg = NoCfg) => bounding_planes = <<>>
    /\ (bounding_planes = <<>>) =>
          /\ \A p \in Grid : isPointInView(p)
          /\ isPointInView(<<5 * Res, 100 * Res, 0>>)

Wit_C9_PoseSetBeforeIntrinsics ==
    /\ initialized
    /\ last.op \in IntrinsicsSetters
    /\ T_G_C # IdentityT
    /\ bounding_planes = <<>>
    /\ \E p \in Grid : ~InFrustum(cfg, T_G_C, p) /\ isPointInView(p)

\* C10: a setIntrinsics call changes only the corners and initialized; so
\* until the next pose setter call isPointInView and getAabb answer for the
\* frustum of the configuration the pose was set with.
Thm_C10_IntrinsicsFrame ==
    /\ [][(last'.op \in IntrinsicsSetters) =>
              /\ UNCHANGED <<T_G_C, T_C_B, bounding_planes, aabb_min,
                             aabb_max>>
              /\ initialized'
              /\ untransformed_corners' =
                    Corners(cfg'.tan_h, cfg'.tan_v, cfg'.min_distance,
                            cfg'.max_distance)]_vars
    /\ []((stale /\ posed_cfg # NoCfg) =>
              /\ \A p \in Grid :
                    isPointInView(p) <=> InFrustum(posed_cfg, T_G_C, p)
              /\ getAabb = GetAabb(FreshModel(posed_cfg, T_G_C)))

Wit_C10_PlanesOfOldCorners ==
    /\ stale
    /\ posed_cfg # NoCfg
    /\ bounding_planes # FreshModel(cfg, T_G_C).bounding_planes
    /\ \E p \in Grid : isPointInView(p) /\ ~InFrustum(cfg, T_G_C, p)

====
